---- MODULE Spec2Model ----
(***************************************************************************)
(* Model of the Upgrade action of the syndesis operator                    *)
(* (pkg/syndesis/action/upgrade.go): one Syndesis installation, the        *)
(* namespace it lives in (the recorded live version, the resources the     *)
(* upgrade template creates, the upgrade pod's phase) and the Upgrade      *)
(* action's cached operator version.                                       *)
(***************************************************************************)
EXTENDS Integers, Sequences, FiniteSets, TLC

(* ---------------------------- bounds ----------------------------------- *)
MaxManifests == 2      \* longest rendered upgrade manifest list
MaxAttempts == 2       \* upgrade attempts after which no retry is scheduled
MaxClock == 1          \* distinct wall-clock readings
MaxInstallations == 2  \* installations reconciled through the one Upgrade action

(* --------------------------- constants --------------------------------- *)
Versions == {"1.4.2", "1.5.0"}
TemplateVersion == "1.5.0"
UpgradePodServiceAccountName == "syndesis-operator"
DefaultServiceAccountName == "default"
Namespace == "syndesis"
Name == "example"

Kinds == {"ConfigMap", "Pod"}
PodPending == "Pending"
PodRunning == "Running"
PodSucceeded == "Succeeded"
PodFailed == "Failed"
PodUnknown == "Unknown"
PodPhases == {PodPending, PodRunning, PodSucceeded, PodFailed, PodUnknown}
Absent == "absent"
Present == "present"

SyndesisInstallationStatusUpgrading == "Upgrading"
SyndesisInstallationStatusUpgradeFailureBackoff == "UpgradeFailureBackoff"
SyndesisInstallationStatusInstalled == "Installed"
SyndesisStatusReasonMissing == "Missing"
SyndesisStatusReasonUpgradePodFailed == "UpgradePodFailed"

NoTime == 0
Times == 1..MaxClock

ErrTemplateVersion == "template version unreadable"
ErrNamespaceVersion == "namespace version unreadable"
ErrRender == "upgrade resources unreadable"
ErrPodNotFound == "upgrade pod not found"
ErrGet == "get failed"
ErrApply == "apply failed"
ErrUpdate == "update failed"
Ok == "ok"

Faults == {"none", "template", "namespace", "render", "get", "apply",
           "namespace2", "update"}

Templates == UNION {[1..n -> Kinds] : n \in 0..MaxManifests}

VARIABLES
  operatorVersion,   \* Upgrade.operatorVersion, "" while the cache is cold
  syndesis,          \* the persisted Status of the installation
  namespaceVersion,  \* the version recorded as live in the namespace
  cluster,           \* resource index -> Absent, Present or a pod phase
  template,          \* the kinds of the manifests the upgrade template renders
  last,              \* what the latest Execute call saw and did
  calls              \* installation -> the Execute call in flight for it

vars ==
  <<operatorVersion, syndesis, namespaceVersion, cluster, template, last, calls>>

(* ---------------------------- helpers ---------------------------------- *)
Min(S) == CHOOSE x \in S : \A y \in S : x <= y

PodIndexes(resources) == {i \in DOMAIN resources : resources[i] = "Pod"}

\* faulty variant: the last Pod of the list is returned
findUpgradePod_Last(resources) ==
  IF PodIndexes(resources) = {} THEN 0
  ELSE CHOOSE i \in PodIndexes(resources) :
         \A j \in PodIndexes(resources) : j <= i

\* faulty variant: falls back to the first resource when no Pod is rendered
findUpgradePod_Lenient(resources) ==
  IF PodIndexes(resources) # {} THEN Min(PodIndexes(resources))
  ELSE IF Len(resources) > 0 THEN 1 ELSE 0

\* findUpgradePod: the first Pod of the list, 0 when there is none (error)
findUpgradePod(resources) ==
  IF PodIndexes(resources) = {} THEN 0 ELSE Min(PodIndexes(resources))

\* faulty variant: the lookup never finds the pod
getUpgradePodFromNamespace_NotFound(podTemplate, cl) == Absent

\* getUpgradePodFromNamespace: the live pod's phase, Absent for NotFound
getUpgradePodFromNamespace(podTemplate, cl) == cl[podTemplate]

\* createOrReplaceForce(res, force): create the resource, or replace the
\* existing one when force is set; a created pod starts in phase Pending
createOrReplaceForce(kind, current, force) ==
  IF current # Absent /\ ~force THEN current
  ELSE IF kind = "Pod" THEN PodPending ELSE Present

\* faulty variant: resources are applied without force
Stamped_NoForce(resources, templateUpgradePod, i) ==
  [index |-> i, kind |-> resources[i], namespace |-> Namespace, owner |-> Name,
   serviceAccountName |->
     IF i = templateUpgradePod THEN UpgradePodServiceAccountName
     ELSE DefaultServiceAccountName,
   force |-> FALSE]

\* what the loop of Execute hands to createOrReplaceForce for resource i
Stamped(resources, templateUpgradePod, i) ==
  [index |-> i, kind |-> resources[i], namespace |-> Namespace, owner |-> Name,
   serviceAccountName |->
     IF i = templateUpgradePod THEN UpgradePodServiceAccountName
     ELSE DefaultServiceAccountName,
   force |-> TRUE]

\* the apply loop over resources 1..n
RECURSIVE ApplyLoop(_, _, _, _)
ApplyLoop(resources, templateUpgradePod, cl, n) ==
  IF n = 0 THEN [cluster |-> cl, applied |-> <<>>]
  ELSE LET prev == ApplyLoop(resources, templateUpgradePod, cl, n - 1)
           res == Stamped(resources, templateUpgradePod, n)
       IN [cluster |-> [prev.cluster EXCEPT
                          ![n] = createOrReplaceForce(res.kind, @, res.force)],
           applied |-> Append(prev.applied, res)]

\* faulty variant: the attempts counter survives the completion
upgradeCompleted_KeepAttempts(s, newVersion) ==
  [s EXCEPT !.installationStatus = SyndesisInstallationStatusInstalled,
            !.reason = SyndesisStatusReasonMissing,
            !.version = newVersion,
            !.lastUpgradeFailure = NoTime,
            !.forceUpgrade = FALSE]

\* the status upgradeCompleted submits
upgradeCompleted(s, newVersion) ==
  [s EXCEPT !.installationStatus = SyndesisInstallationStatusInstalled,
            !.reason = SyndesisStatusReasonMissing,
            !.version = newVersion,
            !.lastUpgradeFailure = NoTime,
            !.upgradeAttempts = 0,
            !.forceUpgrade = FALSE]

\* faulty variant: consuming the flag also resets the attempts counter
forceConsumed_ResetAttempts(s) ==
  [s EXCEPT !.forceUpgrade = FALSE, !.upgradeAttempts = 0]

\* faulty variant: the flag is not cleared
forceConsumed_Kept(s) == s

\* the status submitted after a forced re-application
forceConsumed(s) == [s EXCEPT !.forceUpgrade = FALSE]

\* faulty variant: every forced retry is counted as an attempt
forceRequested_CountsAttempt(s) ==
  [s EXCEPT !.forceUpgrade = TRUE, !.upgradeAttempts = @ + 1]

\* faulty variant: the mismatch is also booked as a failed upgrade
forceRequested_AsFailure(s) ==
  [s EXCEPT !.forceUpgrade = TRUE,
            !.installationStatus = SyndesisInstallationStatusUpgradeFailureBackoff]

\* the status submitted when the pod succeeded but the version did not move
forceRequested(s) == [s EXCEPT !.forceUpgrade = TRUE]

\* faulty variant: the attempt is not counted
upgradeFailed_NoIncrement(s, now) ==
  [s EXCEPT !.installationStatus = SyndesisInstallationStatusUpgradeFailureBackoff,
            !.reason = SyndesisStatusReasonUpgradePodFailed,
            !.lastUpgradeFailure = now]

\* the status submitted when the pod failed
upgradeFailed(s, now) ==
  [s EXCEPT !.installationStatus = SyndesisInstallationStatusUpgradeFailureBackoff,
            !.reason = SyndesisStatusReasonUpgradePodFailed,
            !.lastUpgradeFailure = now,
            !.upgradeAttempts = @ + 1]

\* faulty variant: the bundled template is read on every call
NeedsTemplateRead_Always(a) == TRUE

\* line 32: the template version is read only while the cache is cold
NeedsTemplateRead(a) == a = ""

CanExecute(s) == s.installationStatus = SyndesisInstallationStatusUpgrading

(* ----------------------- the outcome of Execute ------------------------ *)
\* sdk.Update(target): the status is replaced unless the update fails
Update(s, target, fault, branch, cl, applied) ==
  IF fault = "update"
  THEN [status |-> s, cluster |-> cl, applied |-> applied, branch |-> branch,
        committed |-> FALSE, result |-> ErrUpdate]
  ELSE [status |-> target, cluster |-> cl, applied |-> applied, branch |-> branch,
        committed |-> TRUE, result |-> Ok]

Return(s, cl, applied, branch, result) ==
  [status |-> s, cluster |-> cl, applied |-> applied, branch |-> branch,
   committed |-> FALSE, result |-> result]

\* faulty variant: the loop stops one resource short
ForcedOrAbsent_ShortLoop(s, live, targetVersion, resources, templateUpgradePod, cl, fault, failAt) ==
  IF live # targetVersion
  THEN IF fault = "apply" /\ failAt \in 1..Len(resources)
       THEN LET done == ApplyLoop(resources, templateUpgradePod, cl, failAt - 1)
            IN Return(s, done.cluster, done.applied, "apply", ErrApply)
       ELSE LET done == ApplyLoop(resources, templateUpgradePod, cl,
                                  Len(resources) - 1)
            IN IF s.forceUpgrade
               THEN Update(s, forceConsumed(s), fault, "apply",
                           done.cluster, done.applied)
               ELSE Return(s, done.cluster, done.applied, "apply", Ok)
  ELSE Update(s, upgradeCompleted(s, targetVersion), fault, "completed", cl, <<>>)

\* lines 61-91: upgrade pod not found, or upgrade forced
ForcedOrAbsent(s, live, targetVersion, resources, templateUpgradePod, cl, fault, failAt) ==
  IF live # targetVersion
  THEN IF fault = "apply" /\ failAt \in 1..Len(resources)
       THEN LET done == ApplyLoop(resources, templateUpgradePod, cl, failAt - 1)
            IN Return(s, done.cluster, done.applied, "apply", ErrApply)
       ELSE LET done == ApplyLoop(resources, templateUpgradePod, cl, Len(resources))
            IN IF s.forceUpgrade
               THEN Update(s, forceConsumed(s), fault, "apply",
                           done.cluster, done.applied)
               ELSE Return(s, done.cluster, done.applied, "apply", Ok)
  ELSE Update(s, upgradeCompleted(s, targetVersion), fault, "completed", cl, <<>>)

\* faulty variant: the completion check reuses the version read at the start
PodPresent_StaleRead(s, phase, live, newLive, targetVersion, cl, fault, now) ==
  IF phase = PodSucceeded
  THEN IF fault = "namespace2"
       THEN Return(s, cl, <<>>, "abort", ErrNamespaceVersion)
       ELSE IF live = targetVersion
            THEN Update(s, upgradeCompleted(s, targetVersion), fault,
                        "succeeded", cl, <<>>)
            ELSE Update(s, forceRequested(s), fault, "mismatch", cl, <<>>)
  ELSE IF phase = PodFailed
       THEN Update(s, upgradeFailed(s, now), fault, "failed", cl, <<>>)
       ELSE Return(s, cl, <<>>, "running", Ok)

\* faulty variant: only a Running pod counts as still running
PodPresent_OnlyRunning(s, phase, live, newLive, targetVersion, cl, fault, now) ==
  IF phase = PodSucceeded
  THEN IF fault = "namespace2"
       THEN Return(s, cl, <<>>, "abort", ErrNamespaceVersion)
       ELSE IF newLive = targetVersion
            THEN Update(s, upgradeCompleted(s, targetVersion), fault,
                        "succeeded", cl, <<>>)
            ELSE Update(s, forceRequested(s), fault, "mismatch", cl, <<>>)
  ELSE IF phase # PodRunning
       THEN Update(s, upgradeFailed(s, now), fault, "failed", cl, <<>>)
       ELSE Return(s, cl, <<>>, "running", Ok)

\* lines 93-130: upgrade pod present, checking the status
\* faulty variant: a Succeeded pod is treated as one that is still running
PodPresent_IgnoreSuccess(s, phase, live, newLive, targetVersion, cl, fault, now) ==
  IF phase = PodFailed
  THEN Update(s, upgradeFailed(s, now), fault, "failed", cl, <<>>)
  ELSE Return(s, cl, <<>>, "running", Ok)

PodPresent(s, phase, live, newLive, targetVersion, cl, fault, now) ==
  IF phase = PodSucceeded
  THEN IF fault = "namespace2"
       THEN Return(s, cl, <<>>, "abort", ErrNamespaceVersion)
       ELSE IF newLive = targetVersion
            THEN Update(s, upgradeCompleted(s, targetVersion), fault,
                        "succeeded", cl, <<>>)
            ELSE Update(s, forceRequested(s), fault, "mismatch", cl, <<>>)
  ELSE IF phase = PodFailed
       THEN Update(s, upgradeFailed(s, now), fault, "failed", cl, <<>>)
       ELSE Return(s, cl, <<>>, "running", Ok)

\* faulty variant: a present pod is inspected even when the upgrade is forced
Reconcile_TaskFirst(s, targetVersion, live, newLive, resources, cl, fault, failAt, now) ==
  IF fault = "namespace"
  THEN Return(s, cl, <<>>, "abort", ErrNamespaceVersion)
  ELSE IF fault = "render"
  THEN Return(s, cl, <<>>, "abort", ErrRender)
  ELSE LET templateUpgradePod == findUpgradePod(resources) IN
    IF templateUpgradePod = 0
    THEN Return(s, cl, <<>>, "abort", ErrPodNotFound)
    ELSE IF fault = "get"
    THEN Return(s, cl, <<>>, "abort", ErrGet)
    ELSE LET upgradePod == getUpgradePodFromNamespace(templateUpgradePod, cl) IN
      IF upgradePod = Absent
      THEN ForcedOrAbsent(s, live, targetVersion, resources, templateUpgradePod,
                          cl, fault, failAt)
      ELSE PodPresent(s, upgradePod, live, newLive, targetVersion, cl,
                      fault, now)

\* faulty variant: every error of the pod lookup is taken for not-found
Reconcile_AnyGetErrorIsNotFound(s, targetVersion, live, newLive, resources, cl, fault, failAt, now) ==
  IF fault = "namespace"
  THEN Return(s, cl, <<>>, "abort", ErrNamespaceVersion)
  ELSE IF fault = "render"
  THEN Return(s, cl, <<>>, "abort", ErrRender)
  ELSE LET templateUpgradePod == findUpgradePod(resources) IN
    IF templateUpgradePod = 0
    THEN Return(s, cl, <<>>, "abort", ErrPodNotFound)
    ELSE LET upgradePod == getUpgradePodFromNamespace(templateUpgradePod, cl) IN
      IF s.forceUpgrade \/ upgradePod = Absent \/ fault = "get"
      THEN ForcedOrAbsent(s, live, targetVersion, resources, templateUpgradePod,
                          cl, fault, failAt)
      ELSE PodPresent(s, upgradePod, live, newLive, targetVersion, cl,
                      fault, now)

\* faulty variant: a failed pod is re-created at once
Reconcile_RetryOnFailure(s, targetVersion, live, newLive, resources, cl, fault, failAt, now) ==
  IF fault = "namespace"
  THEN Return(s, cl, <<>>, "abort", ErrNamespaceVersion)
  ELSE IF fault = "render"
  THEN Return(s, cl, <<>>, "abort", ErrRender)
  ELSE LET templateUpgradePod == findUpgradePod(resources) IN
    IF templateUpgradePod = 0
    THEN Return(s, cl, <<>>, "abort", ErrPodNotFound)
    ELSE IF fault = "get"
    THEN Return(s, cl, <<>>, "abort", ErrGet)
    ELSE LET upgradePod == getUpgradePodFromNamespace(templateUpgradePod, cl) IN
      IF s.forceUpgrade \/ upgradePod = Absent \/ upgradePod = PodFailed
      THEN ForcedOrAbsent(s, live, targetVersion, resources, templateUpgradePod,
                          cl, fault, failAt)
      ELSE PodPresent(s, upgradePod, live, newLive, targetVersion, cl,
                      fault, now)

\* lines 40-134, once the operator version is known
Reconcile(s, targetVersion, live, newLive, resources, cl, fault, failAt, now) ==
  IF fault = "namespace"
  THEN Return(s, cl, <<>>, "abort", ErrNamespaceVersion)
  ELSE IF fault = "render"
  THEN Return(s, cl, <<>>, "abort", ErrRender)
  ELSE LET templateUpgradePod == findUpgradePod(resources) IN
    IF templateUpgradePod = 0
    THEN Return(s, cl, <<>>, "abort", ErrPodNotFound)
    ELSE IF fault = "get"
    THEN Return(s, cl, <<>>, "abort", ErrGet)
    ELSE LET upgradePod == getUpgradePodFromNamespace(templateUpgradePod, cl) IN
      IF s.forceUpgrade \/ upgradePod = Absent
      THEN ForcedOrAbsent(s, live, targetVersion, resources, templateUpgradePod,
                          cl, fault, failAt)
      ELSE PodPresent(s, upgradePod, live, newLive, targetVersion, cl,
                      fault, now)

NoCall ==
  [called |-> FALSE, fault |-> "none", syndesis |-> <<>>, cluster |-> <<>>,
   operatorVersion |-> "", namespaceVersion |-> "", newNamespaceVersion |-> "",
   branch |-> "none", applied |-> <<>>, committed |-> FALSE, result |-> "none",
   previousOk |-> FALSE]

Installations == 1..MaxInstallations

\* no Execute call in flight
IdleCall == [pc |-> "idle", read |-> "", target |-> "", rendered |-> "",
             result |-> "none"]

(* ------------------------------ Init ----------------------------------- *)
Init ==
  /\ operatorVersion = ""
  /\ template \in Templates
  /\ namespaceVersion \in Versions
  /\ syndesis = [installationStatus |-> SyndesisInstallationStatusUpgrading,
                 reason |-> SyndesisStatusReasonMissing,
                 version |-> namespaceVersion,
                 lastUpgradeFailure |-> NoTime,
                 upgradeAttempts |-> 0,
                 forceUpgrade |-> FALSE]
  /\ cluster = [i \in DOMAIN template |-> Absent]
  /\ last = NoCall
  /\ calls = [p \in Installations |-> IdleCall]

(* ----------------------------- actions --------------------------------- *)
\* One reconciliation: CanExecute, then Execute as a whole.
Execute ==
  /\ CanExecute(syndesis)
  /\ \E fault \in Faults, failAt \in 0..Len(template),
        newLive \in Versions, now \in Times :
     /\ (fault = "apply") = (failAt # 0)
     /\
       IF NeedsTemplateRead(operatorVersion) /\ fault = "template"
       THEN /\ last' = [NoCall EXCEPT !.called = TRUE, !.fault = fault,
                          !.syndesis = syndesis, !.cluster = cluster,
                          !.operatorVersion = operatorVersion,
                          !.namespaceVersion = namespaceVersion,
                          !.newNamespaceVersion = namespaceVersion,
                          !.branch = "abort", !.result = ErrTemplateVersion,
                          !.previousOk = (last.result = Ok)]
            /\ UNCHANGED <<operatorVersion, syndesis, namespaceVersion,
                           cluster, template, calls>>
       ELSE LET targetVersion == IF NeedsTemplateRead(operatorVersion)
                                 THEN TemplateVersion
                                 ELSE operatorVersion
                out == Reconcile(syndesis, targetVersion, namespaceVersion,
                                 newLive, template, cluster, fault, failAt, now)
                reread == out.branch \in {"succeeded", "mismatch"}
            IN /\ operatorVersion' = targetVersion
               /\ syndesis' = out.status
               /\ cluster' = out.cluster
               /\ namespaceVersion' = IF reread THEN newLive ELSE namespaceVersion
               /\ last' = [called |-> TRUE, fault |-> fault,
                           syndesis |-> syndesis, cluster |-> cluster,
                           operatorVersion |-> operatorVersion,
                           namespaceVersion |-> namespaceVersion,
                           newNamespaceVersion |->
                             IF reread THEN newLive ELSE namespaceVersion,
                           branch |-> out.branch, applied |-> out.applied,
                           committed |-> out.committed, result |-> out.result,
                           previousOk |-> (last.result = Ok)]
               /\ UNCHANGED <<template, calls>>

\* The kubelet moves a pod through its phases.
PodProgress ==
  /\ \E i \in DOMAIN template, p \in PodPhases :
       /\ template[i] = "Pod"
       /\ \/ cluster[i] = PodPending /\ p \in {PodRunning, PodUnknown}
          \/ cluster[i] = PodUnknown /\ p = PodRunning
          \/ cluster[i] = PodRunning /\ p \in {PodSucceeded, PodFailed}
       /\ cluster' = [cluster EXCEPT ![i] = p]
  /\ last' = NoCall
  /\ UNCHANGED <<operatorVersion, syndesis, namespaceVersion, template, calls>>

\* Somebody deletes a resource of the upgrade from the namespace.
ResourceDeleted ==
  /\ \E i \in DOMAIN template :
       /\ cluster[i] # Absent
       /\ cluster' = [cluster EXCEPT ![i] = Absent]
  /\ last' = NoCall
  /\ UNCHANGED <<operatorVersion, syndesis, namespaceVersion, template, calls>>

\* The version recorded in the namespace changes (the upgrade pod's work).
LiveVersionChanges ==
  /\ \E v \in Versions :
       /\ v # namespaceVersion
       /\ namespaceVersion' = v
  /\ last' = NoCall
  /\ UNCHANGED <<operatorVersion, syndesis, cluster, template, calls>>

\* An administrator sets the forceUpgrade flag of the status.
AdminForceUpgrade ==
  /\ ~syndesis.forceUpgrade
  /\ syndesis' = [syndesis EXCEPT !.forceUpgrade = TRUE]
  /\ last' = NoCall
  /\ UNCHANGED <<operatorVersion, namespaceVersion, cluster, template, calls>>

\* The backoff policy sends a failed upgrade back to Upgrading, forced.
BackoffRetry ==
  /\ syndesis.installationStatus = SyndesisInstallationStatusUpgradeFailureBackoff
  /\ syndesis.upgradeAttempts < MaxAttempts
  /\ syndesis' = [syndesis EXCEPT
                    !.installationStatus = SyndesisInstallationStatusUpgrading,
                    !.forceUpgrade = TRUE]
  /\ last' = NoCall
  /\ UNCHANGED <<operatorVersion, namespaceVersion, cluster, template, calls>>

Next ==
  \/ Execute
  \/ PodProgress
  \/ ResourceDeleted
  \/ LiveVersionChanges
  \/ AdminForceUpgrade
  \/ BackoffRetry

Spec == Init /\ [][Next]_vars

TypeOK ==
  /\ operatorVersion \in {"", TemplateVersion}
  /\ template \in Templates
  /\ namespaceVersion \in Versions
  /\ syndesis.installationStatus \in
       {SyndesisInstallationStatusUpgrading,
        SyndesisInstallationStatusUpgradeFailureBackoff,
        SyndesisInstallationStatusInstalled}
  /\ syndesis.upgradeAttempts \in 0..MaxAttempts
  /\ syndesis.lastUpgradeFailure \in {NoTime} \cup Times
  /\ syndesis.forceUpgrade \in BOOLEAN
  /\ DOMAIN cluster = DOMAIN template
  /\ \A i \in DOMAIN cluster : cluster[i] \in {Absent, Present} \cup PodPhases

(* ------------- Execute calls of several installations ----------------- *)
\* The accesses of Execute to the field a.operatorVersion, one step each,
\* for calls on different installations that run at the same time through
\* the one Upgrade value.

Torn == "torn"

\* what an unsynchronised read of a.operatorVersion by p can return: the
\* stored value, or, while another call is storing, the value being stored
\* or a torn string
ReadOperatorVersion(p) ==
  {operatorVersion} \cup
  UNION {{calls[q].read, Torn} :
           q \in {r \in Installations : r # p /\ calls[r].pc = "store"}}

\* line 31: Execute is entered for installation p
CallExecute(p) ==
  /\ calls[p].pc = "idle"
  /\ calls' = [calls EXCEPT ![p] = [IdleCall EXCEPT !.pc = "check"]]
  /\ UNCHANGED <<operatorVersion, syndesis, namespaceVersion, cluster,
                 template, last>>

\* line 32: if a.operatorVersion == ""
CheckCache(p) ==
  /\ calls[p].pc = "check"
  /\ \E v \in ReadOperatorVersion(p) :
       calls' = [calls EXCEPT ![p].pc = IF v = "" THEN "fetch" ELSE "target"]
  /\ UNCHANGED <<operatorVersion, syndesis, namespaceVersion, cluster,
                 template, last>>

\* lines 33-36: the template version is read, or the call fails
ReadTemplateVersion(p) ==
  /\ calls[p].pc = "fetch"
  /\ \/ calls' = [calls EXCEPT ![p].pc = "store", ![p].read = TemplateVersion]
     \/ calls' = [calls EXCEPT ![p].pc = "done",
                               ![p].result = ErrTemplateVersion]
  /\ UNCHANGED <<operatorVersion, syndesis, namespaceVersion, cluster,
                 template, last>>

\* line 37: a.operatorVersion = operatorVersion
StoreOperatorVersion(p) ==
  /\ calls[p].pc = "store"
  /\ operatorVersion' = calls[p].read
  /\ calls' = [calls EXCEPT ![p].pc = "target"]
  /\ UNCHANGED <<syndesis, namespaceVersion, cluster, template, last>>

\* line 44: targetVersion := a.operatorVersion
LoadTargetVersion(p) ==
  /\ calls[p].pc = "target"
  /\ \E v \in ReadOperatorVersion(p) :
       calls' = [calls EXCEPT ![p].pc = "render", ![p].target = v]
  /\ UNCHANGED <<operatorVersion, syndesis, namespaceVersion, cluster,
                 template, last>>

\* line 153: SyndesisVersion: a.operatorVersion, then the rest of the call
LoadRenderVersion(p) ==
  /\ calls[p].pc = "render"
  /\ \E v \in ReadOperatorVersion(p) :
       calls' = [calls EXCEPT ![p].pc = "done", ![p].rendered = v,
                              ![p].result = Ok]
  /\ UNCHANGED <<operatorVersion, syndesis, namespaceVersion, cluster,
                 template, last>>

\* Execute returns
ReturnFromExecute(p) ==
  /\ calls[p].pc = "done"
  /\ calls' = [calls EXCEPT ![p] = IdleCall]
  /\ UNCHANGED <<operatorVersion, syndesis, namespaceVersion, cluster,
                 template, last>>

InitConcurrent ==
  /\ Init
  /\ template = <<"Pod">>
  /\ namespaceVersion = "1.4.2"

NextConcurrent ==
  \/ \E p \in Installations : CallExecute(p)
  \/ \E p \in Installations : CheckCache(p)
  \/ \E p \in Installations : ReadTemplateVersion(p)
  \/ \E p \in Installations : StoreOperatorVersion(p)
  \/ \E p \in Installations : LoadTargetVersion(p)
  \/ \E p \in Installations : LoadRenderVersion(p)
  \/ \E p \in Installations : ReturnFromExecute(p)

SpecConcurrent == InitConcurrent /\ [][NextConcurrent]_vars

(* ------------- an upgrade task that succeeds without effect ------------ *)
\* The runs in which the live version never becomes the target version and
\* no pod fails: the task reports Succeeded but the version does not move.
StuckExecute == Execute /\ namespaceVersion' # TemplateVersion

StuckPodProgress ==
  PodProgress /\ \A i \in DOMAIN template : cluster'[i] # PodFailed

InitStuck == Init /\ namespaceVersion # TemplateVersion

NextStuck == StuckExecute \/ StuckPodProgress

SpecStuck == InitStuck /\ [][NextStuck]_vars

(* ------------------------ reading the last call ------------------------ *)
HasTask == PodIndexes(template) # {}
TaskIndex == Min(PodIndexes(template))
TaskBefore == IF HasTask THEN last.cluster[TaskIndex] ELSE Absent
TargetVersion == TemplateVersion
NonTerminal == PodPhases \ {PodSucceeded, PodFailed}

\* the call failed before the task manifest was searched for
FailsBeforeLocate ==
  \/ last.fault \in {"namespace", "render"}
  \/ last.fault = "template" /\ last.operatorVersion = ""

\* the call got as far as choosing between its branches
ReachesBranch ==
  last.called /\ HasTask /\ ~FailsBeforeLocate /\ last.fault # "get"

ForcedOrAbsentCase ==
  ReachesBranch /\ (last.syndesis.forceUpgrade \/ TaskBefore = Absent)

InspectsTask ==
  ReachesBranch /\ ~last.syndesis.forceUpgrade /\ TaskBefore # Absent

InstalledStatus ==
  [installationStatus |-> SyndesisInstallationStatusInstalled,
   reason |-> SyndesisStatusReasonMissing,
   version |-> TargetVersion,
   lastUpgradeFailure |-> NoTime,
   upgradeAttempts |-> 0,
   forceUpgrade |-> FALSE]

\* every rendered manifest was applied, in rendered order, with force
AppliedAllForced ==
  /\ Len(last.applied) = Len(template)
  /\ \A i \in DOMAIN template :
       /\ last.applied[i].index = i
       /\ last.applied[i].kind = template[i]
       /\ last.applied[i].force
  /\ \A i \in DOMAIN template : cluster[i] # Absent

NothingApplied == last.applied = <<>> /\ cluster = last.cluster

(* ------------------------------ claims --------------------------------- *)
\* C1: in phase Upgrading with live version = target version and the task
\* absent or forceUpgrade set, a successful Execute applies no manifest and
\* commits phase Installed, reason cleared, version = target, attempts 0,
\* no failure time and forceUpgrade false, whatever the prior attempt count.
C1_AlreadyAtTarget ==
  (/\ ForcedOrAbsentCase
   /\ last.namespaceVersion = TargetVersion
   /\ last.result = Ok)
  => (NothingApplied /\ last.committed /\ syndesis = InstalledStatus)

C1_Witness ==
  /\ ForcedOrAbsentCase
  /\ last.namespaceVersion = TargetVersion
  /\ last.result = Ok
  /\ last.syndesis.upgradeAttempts > 0
  /\ last.syndesis.lastUpgradeFailure # NoTime
  /\ syndesis = InstalledStatus

\* C2 as written: every successful Execute on an installation with
\* forceUpgrade set clears the flag and re-applies every rendered manifest
\* with force.
C2_Original ==
  (last.called /\ last.syndesis.forceUpgrade /\ last.result = Ok)
  => (~syndesis.forceUpgrade /\ AppliedAllForced)

\* C2 amended: with forceUpgrade set and live version # target version, one
\* successful Execute clears forceUpgrade (changing nothing else of the
\* status) and re-applies every rendered manifest with force, also when the
\* task already exists.
C2_ForcedReapply ==
  (/\ last.called
   /\ last.syndesis.forceUpgrade
   /\ last.namespaceVersion # TargetVersion
   /\ last.result = Ok)
  => (/\ AppliedAllForced
      /\ syndesis = [last.syndesis EXCEPT !.forceUpgrade = FALSE])

C2_Witness ==
  /\ last.called
  /\ last.syndesis.forceUpgrade
  /\ last.namespaceVersion # TargetVersion
  /\ last.result = Ok
  /\ TaskBefore \in {PodRunning, PodFailed}
  /\ Len(template) > 1
  /\ ~syndesis.forceUpgrade

\* C3: when Execute inspects the task and finds it Failed, the committed
\* status has attempts + 1, a failure time, reason upgrade pod failed and
\* phase UpgradeFailureBackoff, and Execute returns success; nothing is
\* applied.
C3_TaskFailed ==
  (InspectsTask /\ TaskBefore = PodFailed)
  => (/\ NothingApplied
      /\ last.committed = (last.fault # "update")
      /\ last.committed =>
           /\ last.result = Ok
           /\ syndesis.upgradeAttempts = last.syndesis.upgradeAttempts + 1
           /\ syndesis.lastUpgradeFailure # NoTime
           /\ syndesis.reason = SyndesisStatusReasonUpgradePodFailed
           /\ syndesis.installationStatus =
                SyndesisInstallationStatusUpgradeFailureBackoff
           /\ syndesis.version = last.syndesis.version
           /\ syndesis.forceUpgrade = last.syndesis.forceUpgrade
      /\ ~last.committed => syndesis = last.syndesis)

C3_Witness ==
  /\ InspectsTask
  /\ TaskBefore = PodFailed
  /\ last.result = Ok
  /\ last.syndesis.upgradeAttempts = 1
  /\ syndesis.upgradeAttempts = 2

\* C4: when Execute inspects the task, finds it Succeeded and re-reads a
\* live version # target version, the committed status differs from the
\* prior one only in forceUpgrade = true (phase still Upgrading), and no
\* manifest is applied.
C4_SucceededMismatch ==
  (/\ InspectsTask
   /\ TaskBefore = PodSucceeded
   /\ last.fault # "namespace2"
   /\ last.newNamespaceVersion # TargetVersion)
  => (/\ NothingApplied
      /\ last.committed = (last.fault # "update")
      /\ last.committed =>
           /\ syndesis = [last.syndesis EXCEPT !.forceUpgrade = TRUE]
           /\ syndesis.installationStatus = SyndesisInstallationStatusUpgrading
      /\ ~last.committed => syndesis = last.syndesis)

C4_Witness ==
  /\ InspectsTask
  /\ TaskBefore = PodSucceeded
  /\ last.newNamespaceVersion # TargetVersion
  /\ last.committed
  /\ syndesis.forceUpgrade
  /\ syndesis.installationStatus = SyndesisInstallationStatusUpgrading

\* C5: when Execute inspects the task, finds it Succeeded and the live
\* version read again after that equals the target version, it commits
\* Installed / target / 0 attempts / no failure time / forceUpgrade false,
\* whatever the read at the start of the call returned.
C5_SucceededFreshRead ==
  (/\ InspectsTask
   /\ TaskBefore = PodSucceeded
   /\ last.fault \notin {"namespace2", "update"}
   /\ last.newNamespaceVersion = TargetVersion)
  => (NothingApplied /\ last.result = Ok /\ syndesis = InstalledStatus)

C5_Witness ==
  /\ InspectsTask
  /\ TaskBefore = PodSucceeded
  /\ last.namespaceVersion # TargetVersion
  /\ last.newNamespaceVersion = TargetVersion
  /\ syndesis = InstalledStatus

\* C6: with live version # target version, no task in the namespace and
\* forceUpgrade false, Execute applies every rendered manifest in order with
\* force and commits no status: every status field is unchanged.
C6_FirstApply ==
  (/\ ReachesBranch
   /\ ~last.syndesis.forceUpgrade
   /\ TaskBefore = Absent
   /\ last.namespaceVersion # TargetVersion)
  => (/\ ~last.committed
      /\ syndesis = last.syndesis
      /\ last.fault # "apply" => (AppliedAllForced /\ last.result = Ok))

C6_Witness ==
  /\ ReachesBranch
  /\ ~last.syndesis.forceUpgrade
  /\ TaskBefore = Absent
  /\ last.namespaceVersion # TargetVersion
  /\ last.result = Ok
  /\ Len(last.applied) = MaxManifests
  /\ syndesis.installationStatus = SyndesisInstallationStatusUpgrading

\* C7: with the task present in a non-terminal phase and forceUpgrade
\* false, Execute applies nothing and commits nothing, and returns success
\* whenever it gets as far as inspecting the task.
C7_StillRunning ==
  (/\ last.called
   /\ HasTask
   /\ ~last.syndesis.forceUpgrade
   /\ TaskBefore \in NonTerminal)
  => (/\ NothingApplied
      /\ ~last.committed
      /\ syndesis = last.syndesis
      /\ ReachesBranch => last.result = Ok)

C7_Witness ==
  /\ InspectsTask
  /\ TaskBefore = PodPending
  /\ last.previousOk
  /\ last.result = Ok
  /\ syndesis.installationStatus = SyndesisInstallationStatusUpgrading

\* C8: when the rendered manifests contain no Pod, Execute fails (with the
\* pod-not-found error unless an earlier step already failed), applies
\* nothing and leaves the status untouched, in every state.
C8_NoTaskManifest ==
  (last.called /\ ~HasTask)
  => (/\ last.result # Ok
      /\ ~FailsBeforeLocate => last.result = ErrPodNotFound
      /\ NothingApplied
      /\ ~last.committed
      /\ syndesis = last.syndesis)

C8_Witness ==
  /\ last.called
  /\ ~HasTask
  /\ Len(template) > 0
  /\ last.syndesis.forceUpgrade
  /\ last.namespaceVersion = TargetVersion
  /\ last.result = ErrPodNotFound

\* C9 as written: an Execute that directly follows a successful Execute
\* changes neither the applied resources nor the persisted status.
C9_Original ==
  (last.called /\ last.previousOk)
  => (syndesis = last.syndesis /\ cluster = last.cluster)

\* C9 amended: an Execute that directly follows a successful Execute which
\* did not leave forceUpgrade set changes neither the applied resources nor
\* the persisted status.
C9_Idempotent ==
  (last.called /\ last.previousOk /\ ~last.syndesis.forceUpgrade)
  => (/\ syndesis = last.syndesis
      /\ cluster = last.cluster
      /\ last.applied = <<>>
      /\ ~last.committed)

C9_Witness ==
  /\ last.called
  /\ last.previousOk
  /\ ~last.syndesis.forceUpgrade
  /\ last.result = Ok
  /\ TaskBefore = PodPending
  /\ \A i \in DOMAIN template : cluster[i] # Absent

\* C10 as written: no Execute that takes the forced branch ends with
\* forceUpgrade still set, also when an apply or the status update fails.
C10_Original ==
  (ReachesBranch /\ last.syndesis.forceUpgrade) => ~syndesis.forceUpgrade

\* C10 amended: every Execute that takes the forced branch and returns
\* success ends with forceUpgrade false; one that fails leaves the flag set.
C10_OneShot ==
  (ReachesBranch /\ last.syndesis.forceUpgrade)
  => (syndesis.forceUpgrade = (last.result # Ok))

C10_Witness ==
  /\ ReachesBranch
  /\ last.syndesis.forceUpgrade
  /\ last.result = Ok
  /\ last.applied # <<>>
  /\ ~syndesis.forceUpgrade

\* C11 as written: upgradeAttempts increases (by exactly 1) only in a step
\* taken while the installation is in UpgradeFailureBackoff, and is reset
\* to 0 only by a step that moves the phase into Installed.
C11_Original ==
  [][/\ syndesis'.upgradeAttempts > syndesis.upgradeAttempts =>
          /\ syndesis'.upgradeAttempts = syndesis.upgradeAttempts + 1
          /\ syndesis.installationStatus =
               SyndesisInstallationStatusUpgradeFailureBackoff
     /\ syndesis'.upgradeAttempts < syndesis.upgradeAttempts =>
          /\ syndesis'.upgradeAttempts = 0
          /\ syndesis'.installationStatus = SyndesisInstallationStatusInstalled
    ]_vars

\* C11 amended: upgradeAttempts increases (by exactly 1) only in the step
\* that moves the phase from Upgrading into UpgradeFailureBackoff, and is
\* reset to 0 only by a step that moves the phase from Upgrading into
\* Installed; no other step changes it.
C11_AttemptsBookkeeping ==
  [][/\ syndesis'.upgradeAttempts > syndesis.upgradeAttempts =>
          /\ syndesis'.upgradeAttempts = syndesis.upgradeAttempts + 1
          /\ syndesis.installationStatus = SyndesisInstallationStatusUpgrading
          /\ syndesis'.installationStatus =
               SyndesisInstallationStatusUpgradeFailureBackoff
          /\ last'.called
     /\ syndesis'.upgradeAttempts < syndesis.upgradeAttempts =>
          /\ syndesis'.upgradeAttempts = 0
          /\ syndesis.installationStatus = SyndesisInstallationStatusUpgrading
          /\ syndesis'.installationStatus = SyndesisInstallationStatusInstalled
          /\ last'.called
    ]_vars

C11_Witness ==
  /\ InspectsTask
  /\ TaskBefore = PodSucceeded
  /\ last.syndesis.upgradeAttempts = 1
  /\ syndesis.upgradeAttempts = 0
  /\ syndesis.installationStatus = SyndesisInstallationStatusInstalled

\* C12: with forceUpgrade set, the phase of a task found in the namespace
\* is never inspected: a Failed task causes no UpgradeFailureBackoff and no
\* attempts increment, a Succeeded or running task does not prevent the
\* re-application, and with live version # target version the full
\* manifest set is re-applied in that call (unless an apply fails); with
\* live version = target version the upgrade is completed.
C12_ForcePriority ==
  (ReachesBranch /\ last.syndesis.forceUpgrade /\ TaskBefore # Absent)
  => (/\ syndesis.installationStatus #
           SyndesisInstallationStatusUpgradeFailureBackoff
      /\ syndesis.upgradeAttempts \in {last.syndesis.upgradeAttempts, 0}
      /\ syndesis.lastUpgradeFailure \in
           {last.syndesis.lastUpgradeFailure, NoTime}
      /\ last.namespaceVersion # TargetVersion =>
           /\ last.fault # "apply" => AppliedAllForced
           /\ last.fault \notin {"apply", "update"} =>
                syndesis = [last.syndesis EXCEPT !.forceUpgrade = FALSE]
           /\ last.fault \in {"apply", "update"} => syndesis = last.syndesis
      /\ last.namespaceVersion = TargetVersion =>
           /\ NothingApplied
           /\ last.fault # "update" => syndesis = InstalledStatus)

C12_Witness ==
  /\ ReachesBranch
  /\ last.syndesis.forceUpgrade
  /\ TaskBefore = PodFailed
  /\ last.namespaceVersion # TargetVersion
  /\ last.result = Ok
  /\ cluster[TaskIndex] = PodPending
  /\ syndesis.installationStatus = SyndesisInstallationStatusUpgrading

\* C13: when applying the k-th manifest fails, Execute returns the error,
\* manifests 1..k-1 stay applied, manifests k.. are untouched and no status
\* is committed; and the Execute that directly follows, with nothing
\* failing, re-applies the full set from the first manifest.
C13_PartialApplyRetry ==
  [][/\ (last'.called /\ last'.result = ErrApply) =>
          /\ Len(last'.applied) < Len(template)
          /\ \A i \in DOMAIN last'.applied : last'.applied[i].index = i
          /\ \A j \in DOMAIN template :
               j > Len(last'.applied) => cluster'[j] = cluster[j]
          /\ ~last'.committed
          /\ syndesis' = syndesis
     /\ (last.called /\ last.result = ErrApply
         /\ last'.called /\ last'.fault = "none") =>
          AppliedAllForced'
    ]_vars

\* C14: a failure before the branch decision (target version, live
\* version, rendering, locating the task, a task fetch error other than
\* not-found) makes Execute return an error with nothing applied and no
\* status commit; a not-found task is no error and leads to the
\* task-absent branch; a failed re-read of the live version in the
\* Succeeded branch returns an error with no status commit.
C14_EarlyFailures ==
  /\ (last.called /\ ~ReachesBranch) =>
       /\ last.result \in {ErrTemplateVersion, ErrNamespaceVersion, ErrRender,
                           ErrPodNotFound, ErrGet}
       /\ NothingApplied
       /\ ~last.committed
       /\ syndesis = last.syndesis
  /\ (ReachesBranch /\ TaskBefore = Absent /\ last.fault = "none") =>
       /\ last.result = Ok
       /\ last.namespaceVersion # TargetVersion => AppliedAllForced
       /\ last.namespaceVersion = TargetVersion => syndesis = InstalledStatus
  /\ (InspectsTask /\ TaskBefore = PodSucceeded /\ last.fault = "namespace2") =>
       /\ last.result = ErrNamespaceVersion
       /\ NothingApplied
       /\ ~last.committed
       /\ syndesis = last.syndesis

C14_Witness ==
  /\ last.called
  /\ last.fault = "get"
  /\ last.result = ErrGet
  /\ last.syndesis.forceUpgrade
  /\ TaskBefore = PodRunning
  /\ last.namespaceVersion # TargetVersion
  /\ syndesis.forceUpgrade

\* C15: the operator version cache is filled lazily, once: a failed read
\* of the template version leaves it cold and Execute fails; the first
\* successful read fills it; from then on it never changes, no call reads
\* the template version again (a failing template source no longer makes
\* Execute fail) and every call uses the cached value as its target; the
\* live version is the one in the namespace at each call.
C15_LazyCache ==
  [][/\ operatorVersion # "" => operatorVersion' = operatorVersion
     /\ (last'.called /\ operatorVersion = "" /\ last'.fault = "template") =>
          /\ operatorVersion' = ""
          /\ last'.result = ErrTemplateVersion
          /\ syndesis' = syndesis
          /\ cluster' = cluster
     /\ (last'.called /\ operatorVersion = "" /\ last'.fault # "template") =>
          operatorVersion' = TemplateVersion
     /\ (last'.called /\ operatorVersion # "") =>
          /\ last'.result # ErrTemplateVersion
          /\ syndesis'.installationStatus = SyndesisInstallationStatusInstalled
               => syndesis'.version = operatorVersion
     /\ last'.called => last'.namespaceVersion = namespaceVersion
    ]_vars

C15_Witness ==
  /\ last.called
  /\ last.operatorVersion = TemplateVersion
  /\ last.fault = "template"
  /\ last.result = Ok
  /\ operatorVersion = TemplateVersion
  /\ last.applied # <<>>

\* C16: Execute calls on different installations share no mutable state:
\* no two calls are ever about to access a.operatorVersion with one of
\* them writing it, and every call that gets past the version resolution
\* uses the template version as its target and for rendering, as it does
\* when run alone.
C16_NoSharedState ==
  /\ \A p \in Installations, q \in Installations :
       (p # q /\ calls[p].pc = "store") =>
         calls[q].pc \notin {"check", "store", "target", "render"}
  /\ \A p \in Installations :
       (calls[p].pc = "done" /\ calls[p].result = Ok) =>
         (calls[p].target = TemplateVersion /\ calls[p].rendered = TemplateVersion)

\* C17: while the task keeps reporting Succeeded and the live version
\* stays # target version, every call that finds the task Succeeded sets
\* forceUpgrade, the call that follows re-applies the full manifest set
\* with force and clears the flag, and this goes on without a cap: the
\* phase stays Upgrading, upgradeAttempts stays 0 and no failure is ever
\* recorded.
C17_SelfHealingLoop ==
  /\ syndesis.installationStatus = SyndesisInstallationStatusUpgrading
  /\ syndesis.upgradeAttempts = 0
  /\ syndesis.lastUpgradeFailure = NoTime
  /\ (InspectsTask /\ TaskBefore = PodSucceeded
      /\ last.fault \notin {"namespace2", "update"}) =>
       (syndesis.forceUpgrade /\ NothingApplied)
  /\ (ReachesBranch /\ last.syndesis.forceUpgrade
      /\ last.fault \notin {"apply", "update"}) =>
       (AppliedAllForced /\ ~syndesis.forceUpgrade)

C17_Witness ==
  /\ ReachesBranch
  /\ last.previousOk
  /\ last.syndesis.forceUpgrade
  /\ TaskBefore = PodSucceeded
  /\ \A i \in DOMAIN template : last.cluster[i] # Absent
  /\ last.result = Ok
  /\ Len(last.applied) = Len(template)
  /\ ~syndesis.forceUpgrade

\* the task manifest was handed to the applier in the last call
TaskApplied ==
  \E i \in DOMAIN last.applied : last.applied[i].index = TaskIndex

\* C18 as written: once the task exists in the namespace, no Execute call
\* creates or replaces it.
C18_Original ==
  (last.called /\ HasTask /\ TaskBefore # Absent)
  => (~TaskApplied /\ cluster[TaskIndex] = last.cluster[TaskIndex])

\* C18 amended: once the task exists in the namespace, no Execute call made
\* with forceUpgrade false creates or replaces it (such calls only read its
\* phase); a call made with forceUpgrade true and live version # target
\* version applies it again with force.
C18_TaskWrittenOnlyWhenForced ==
  /\ (last.called /\ HasTask /\ TaskBefore # Absent
      /\ ~last.syndesis.forceUpgrade) =>
       (/\ last.applied = <<>>
        /\ cluster = last.cluster)
  /\ (ReachesBranch /\ TaskBefore # Absent /\ last.syndesis.forceUpgrade
      /\ last.namespaceVersion # TargetVersion /\ last.result = Ok) =>
       (TaskApplied /\ last.applied[TaskIndex].force)

C18_Witness ==
  /\ InspectsTask
  /\ TaskBefore = PodFailed
  /\ last.result = Ok
  /\ cluster[TaskIndex] = PodFailed
  /\ last.applied = <<>>
  /\ syndesis.installationStatus =
       SyndesisInstallationStatusUpgradeFailureBackoff

\* the manifests of the last call that were applied as the upgrade task
\* (with the operator's service account)
AppliedAsTask ==
  {i \in DOMAIN last.applied :
     last.applied[i].serviceAccountName = UpgradePodServiceAccountName}

\* C19 as written: every manifest sequence for which locating the task
\* succeeds (the call gets past the locator) holds exactly one Pod.
C19_Original ==
  (last.called /\ ~FailsBeforeLocate /\ last.result # ErrPodNotFound)
  => Cardinality(PodIndexes(template)) = 1

\* C19 amended: every manifest sequence for which locating the task
\* succeeds holds at least one Pod; a sequence with none is rejected with
\* the pod-not-found error; the resource taken as the task is the first
\* Pod in sequence order, also when there are several.
C19_FirstPodLocated ==
  (last.called /\ ~FailsBeforeLocate)
  => (/\ (last.result = ErrPodNotFound) = (PodIndexes(template) = {})
      /\ last.result # ErrPodNotFound =>
           /\ Cardinality(PodIndexes(template)) >= 1
           /\ AppliedAsTask \subseteq {TaskIndex}
           /\ Len(last.applied) >= TaskIndex => AppliedAsTask = {TaskIndex}
           /\ \A j \in 1..(TaskIndex - 1) : template[j] # "Pod")

C19_Witness ==
  /\ last.called
  /\ template = <<"Pod", "Pod">>
  /\ last.result = Ok
  /\ Len(last.applied) = 2
  /\ AppliedAsTask = {1}

\* ---------------------------------------------------------------------
\* Forward progress.  The reconciliation trigger is weakly fair and only
\* finitely many calls meet a transient failure, so a call in which no
\* apply / commit / resolve step fails cannot stay possible forever
\* without happening.  The environment is the one of Spec.
\* ---------------------------------------------------------------------
ExecuteNoFault == Execute /\ last'.fault = "none"

InitLive == Init /\ namespaceVersion # TemplateVersion

SpecLive == InitLive /\ [][Next]_vars /\ WF_vars(ExecuteNoFault)

\* the upgrade task is in the namespace and has succeeded, and the live
\* version is the target
TaskSucceededAtTarget ==
  /\ HasTask
  /\ cluster[TaskIndex] = PodSucceeded
  /\ namespaceVersion = TargetVersion

InstalledAtTarget ==
  /\ syndesis.installationStatus = SyndesisInstallationStatusInstalled
  /\ syndesis.version = TargetVersion

\* C20: from phase Upgrading with live version != target and no task,
\* under weak fairness of reconciliation and finitely many transient
\* failures, if the applied task eventually reaches Succeeded (a terminal
\* phase) with the live version then equal to the target, the installation
\* eventually is Installed with version = target; and in phase Installed
\* or UpgradeFailureBackoff (CanExecute false) no step is an Execute call,
\* so the action changes no status and applies nothing.
C20_ForwardProgress ==
  /\ (<>[]TaskSucceededAtTarget) => <>InstalledAtTarget
  /\ [][~CanExecute(syndesis) =>
          /\ ~last'.called
          /\ syndesis'.installationStatus = syndesis.installationStatus
               => (/\ syndesis'.version = syndesis.version
                   /\ syndesis'.upgradeAttempts = syndesis.upgradeAttempts
                   /\ syndesis'.lastUpgradeFailure = syndesis.lastUpgradeFailure)
          /\ \A i \in DOMAIN template :
               cluster'[i] \in {PodPending, Present} => cluster'[i] = cluster[i]]_vars

C20_Witness ==
  /\ last.called
  /\ last.namespaceVersion # TargetVersion
  /\ TaskBefore = PodSucceeded
  /\ last.branch = "succeeded"
  /\ InstalledAtTarget
  /\ TaskSucceededAtTarget
====
